---- MODULE Spec2Model ----
(***************************************************************************)
(* A model of the commute optimizer: the provider adapters of              *)
(* api_adapters.py (GeocodeCoAdapter, TomTomAdapter, GoogleMapsAdapter,    *)
(* FallbackGeocoderAdapter), the value types of api_structures.py and the  *)
(* scenario scan of commute_optimizer.py (analyze_commute_scenarios).      *)
(*                                                                         *)
(* Python values are tagged records: the field t is the Python type.       *)
(* A str is a sequence of one-character strings, so that float() can be    *)
(* computed; a float is kept in tenths (34.5 is n = 345), an int as is.    *)
(* An evaluation yields [exc, v]: exc = "" and the value v, or the name of *)
(* the exception raised.                                                   *)
(*                                                                         *)
(* Time is kept in tenths of a second: a time.sleep takes its argument, a  *)
(* request the round trip of the run's network, everything else nothing.   *)
(*                                                                         *)
(* Left out, as nothing here reads them: the text that is printed (the     *)
(* verbose traces included; of display_results the flags it passes to the  *)
(* formatter are kept), the URLs and query parameters built for a request. *)
(* Every response body is JSON: response.json() always decodes.            *)
(***************************************************************************)
EXTENDS Integers, Sequences, FiniteSets, TLC

VARIABLES
    api_adapter,    \* the adapter analyze_commute_scenarios is given
    lunch_minutes,  \* its lunch_minutes argument
    pc,             \* where the scan is: "geocode_home", "geocode_work",
                    \* "loop", "returned" or "raised" (an exception left it)
    home_coords, work_coords, current_time, scenarios,  \* its locals
    result,         \* what it returned, or the exception that left it
    calls,          \* the adapter calls it has made, in order
    lastCall,       \* the last of them, with what the adapter did in it
    latency,        \* the round trip of a request in this run
    clock,          \* the time elapsed since the scan was called
    geocodeco_calls,  \* when each request to geocode.maps.co was sent and
                      \* when the call that sent it returned
    report          \* what display_results was given to show

vars == <<api_adapter, lunch_minutes, pc, home_coords, work_coords,
          current_time, scenarios, result, calls, lastCall,
          latency, clock, geocodeco_calls, report>>

(***************************************************************************)
(* Python values                                                           *)
(***************************************************************************)
None == [t |-> "NoneType"]
PyInt(n) == [t |-> "int", n |-> n]
PyFloat(n) == [t |-> "float", n |-> n]
PyBool(b) == [t |-> "bool", b |-> b]
PyStr(s) == [t |-> "str", s |-> s]
PyList(l) == [t |-> "list", l |-> l]
PyDict(d) == [t |-> "dict", d |-> d]
EmptyDict == PyDict(<<>>)

Ok(v) == [exc |-> "", v |-> v]
Raise(e) == [exc |-> e, v |-> None]

\* bool(x): the truth value Python gives an object in `if x` / `not x`.
\* A dataclass instance defines neither __bool__ nor __len__ and is true.
Truthy(x) ==
    CASE x.t = "NoneType" -> FALSE
      [] x.t = "bool" -> x.b
      [] x.t = "int" -> x.n # 0
      [] x.t = "float" -> x.n # 0
      [] x.t = "str" -> x.s # <<>>
      [] x.t = "list" -> x.l # <<>>
      [] x.t = "dict" -> DOMAIN x.d # {}
      [] OTHER -> TRUE

\* x[k] for a str key k.
GetItemKey(x, k) ==
    IF x.t = "dict"
    THEN IF k \in DOMAIN x.d THEN Ok(x.d[k]) ELSE Raise("KeyError")
    ELSE Raise("TypeError")

\* x[0].
GetItemFirst(x) ==
    CASE x.t = "list" -> IF x.l # <<>> THEN Ok(x.l[1]) ELSE Raise("IndexError")
      [] x.t = "str" -> IF x.s # <<>> THEN Ok(PyStr(<<x.s[1]>>)) ELSE Raise("IndexError")
      [] x.t = "dict" -> Raise("KeyError")
      [] OTHER -> Raise("TypeError")

\* x.get(k).
DictGet(x, k) ==
    IF x.t = "dict"
    THEN IF k \in DOMAIN x.d THEN Ok(x.d[k]) ELSE Ok(None)
    ELSE Raise("AttributeError")

\* k in x, for a key name k. The strings of the model are shorter than any
\* key name, so a key name is neither a substring of a str nor an element of
\* a list.
Contains(k, x) ==
    CASE x.t = "dict" -> Ok(PyBool(k \in DOMAIN x.d))
      [] x.t = "list" -> Ok(PyBool(FALSE))
      [] x.t = "str" -> Ok(PyBool(FALSE))
      [] OTHER -> Raise("TypeError")

\* Subscripts on the result of an earlier evaluation: an exception raised
\* earlier in the expression is what the expression raises.
Key(r, k) == IF r.exc # "" THEN r ELSE GetItemKey(r.v, k)
First(r) == IF r.exc # "" THEN r ELSE GetItemFirst(r.v)

(***************************************************************************)
(* float(x)                                                                *)
(***************************************************************************)
DigitChars == {"0", "1", "2", "3", "4", "5", "6", "7", "8", "9"}

DigitVal(c) ==
    CASE c = "0" -> 0 [] c = "1" -> 1 [] c = "2" -> 2 [] c = "3" -> 3
      [] c = "4" -> 4 [] c = "5" -> 5 [] c = "6" -> 6 [] c = "7" -> 7
      [] c = "8" -> 8 [] c = "9" -> 9

RECURSIVE DecVal(_)
DecVal(s) ==
    IF s = <<>> THEN 0
    ELSE DecVal(SubSeq(s, 1, Len(s) - 1)) * 10 + DigitVal(s[Len(s)])

AllDigits(s) == \A i \in 1..Len(s) : s[i] \in DigitChars

Unsigned(s) == IF s # <<>> /\ s[1] \in {"-", "+"} THEN Tail(s) ELSE s

DotAt(s) == IF \E i \in 1..Len(s) : s[i] = "."
            THEN CHOOSE i \in 1..Len(s) : s[i] = "." /\ \A j \in 1..(i-1) : s[j] # "."
            ELSE Len(s) + 1

IntPart(s) == SubSeq(Unsigned(s), 1, DotAt(Unsigned(s)) - 1)
FracPart(s) == SubSeq(Unsigned(s), DotAt(Unsigned(s)) + 1, Len(Unsigned(s)))

\* The decimal literals float() accepts: sign, digits, at most one point, at
\* least one digit. (Exponents, inf and nan use letters the model's strings
\* do not combine that way.)
IsFloatLiteral(s) ==
    /\ AllDigits(IntPart(s))
    /\ AllDigits(FracPart(s))
    /\ Len(IntPart(s)) + Len(FracPart(s)) >= 1

\* The value in tenths; the model's literals carry at most one decimal.
FloatLiteralTenths(s) ==
    LET mag == DecVal(IntPart(s)) * 10
               + (IF FracPart(s) = <<>> THEN 0 ELSE DigitVal(FracPart(s)[1]))
    IN IF s[1] = "-" THEN 0 - mag ELSE mag

float(x) ==
    CASE x.t = "float" -> Ok(x)
      [] x.t = "int" -> Ok(PyFloat(x.n * 10))
      [] x.t = "bool" -> Ok(PyFloat(IF x.b THEN 10 ELSE 0))
      [] x.t = "str" -> IF IsFloatLiteral(x.s)
                        THEN Ok(PyFloat(FloatLiteralTenths(x.s)))
                        ELSE Raise("ValueError")
      [] OTHER -> Raise("TypeError")

(***************************************************************************)
(* api_structures.py                                                       *)
(***************************************************************************)
CoordinatesFields == {"lat", "lon"}
RouteInfoFields == {"travel_time_sec"}

\* The __init__ a dataclass generates: one parameter per declared field, no
\* conversion and no check of the values; any other keyword is a TypeError.
Coordinates(kw) ==
    IF DOMAIN kw = CoordinatesFields
    THEN Ok([t |-> "Coordinates", f |-> kw])
    ELSE Raise("TypeError")

RouteInfo(kw) ==
    IF DOMAIN kw = RouteInfoFields
    THEN Ok([t |-> "RouteInfo", f |-> kw])
    ELSE Raise("TypeError")

\* obj.name
Attr(obj, name) ==
    IF obj.t \in {"Coordinates", "RouteInfo"} /\ name \in DOMAIN obj.f
    THEN Ok(obj.f[name])
    ELSE Raise("AttributeError")

(***************************************************************************)
(* The network: what requests.get meets.  A response is the transport      *)
(* error requests.get raises ("" when it returns), the HTTP status and the *)
(* decoded JSON body (response.json()).                                    *)
(***************************************************************************)
HTTP_TOO_MANY_REQUESTS == 429

Response(status, data) == [error |-> "", status_code |-> status, data |-> data]
TransportError(e) == [error |-> e, status_code |-> 0, data |-> None]
NoResponse == [error |-> "none", status_code |-> 0, data |-> None]

\* The subclasses of requests.exceptions.RequestException met here.
RequestException == {"ConnectionError", "Timeout", "HTTPError"}

\* response.raise_for_status()
raise_for_status(resp) ==
    IF resp.status_code >= 400 /\ resp.status_code < 600
    THEN Raise("HTTPError") ELSE Ok(None)

\* try: ... except <caught>: return None
TryExcept(r, caught) == IF r.exc \in caught THEN Ok(None) ELSE r

\* The two keyword arguments of a constructor call, evaluated left to
\* right before the constructor runs.
Args2(ra, rb) ==
    IF ra.exc # "" THEN ra ELSE IF rb.exc # "" THEN rb
    ELSE Ok([a |-> ra.v, b |-> rb.v])

FloatOf(r) == IF r.exc # "" THEN r ELSE float(r.v)

IsStr(x, s) == x.t = "str" /\ x.s = s

GeoArgs(address) ==
    [address |-> address, start_coords |-> None, end_coords |-> None,
     departure_time |-> 0]
RouteArgs(start_coords, end_coords, departure_time) ==
    [address |-> "", start_coords |-> start_coords, end_coords |-> end_coords,
     departure_time |-> departure_time]

(***************************************************************************)
(* What a call does, in order: the adapter methods entered and left (path  *)
(* is the chain of attributes from the adapter called to the one acting),  *)
(* the requests sent and the pauses taken.                                 *)
(***************************************************************************)
SLEEP_TENTHS == 11

Event(ev, path, cls, op, args, resp, out, dur) ==
    [ev |-> ev, path |-> path, cls |-> cls, op |-> op, args |-> args,
     resp |-> resp, out |-> out, dur |-> dur]
Enter(path, cls, op, args) ==
    Event("enter", path, cls, op, args, NoResponse, Ok(None), 0)
Return(path, cls, op, args, out) ==
    Event("return", path, cls, op, args, NoResponse, out, 0)
Request(path, cls, op, args, resp) ==
    Event("request", path, cls, op, args, resp, Ok(None), 0)
Sleep(path, cls, op, args) ==
    Event("sleep", path, cls, op, args, NoResponse, Ok(None), SLEEP_TENTHS)

\* A method of a backend adapter that sends one request.
OneRequestCall(path, cls, op, args, resp, sleeps, out) ==
    [out |-> out,
     trace |-> <<Enter(path, cls, op, args), Request(path, cls, op, args, resp)>>
               \o (IF sleeps THEN <<Sleep(path, cls, op, args)>> ELSE <<>>)
               \o <<Return(path, cls, op, args, out)>>]

(***************************************************************************)
(* GeocodeCoAdapter                                                        *)
(***************************************************************************)
GeocodeCo_normalize(data) ==
    LET location == First(Ok(data))
        kw == Args2(FloatOf(Key(location, "lat")), FloatOf(Key(location, "lon")))
    IN IF kw.exc # "" THEN kw ELSE Coordinates([lat |-> kw.v.a, lon |-> kw.v.b])

\* GeocodeCo_parse with an empty result list treated as an error of the
\* lookup instead of "no result".
GeocodeCo_parse_raising(resp) ==
    IF resp.status_code = HTTP_TOO_MANY_REQUESTS THEN Ok(None)
    ELSE IF raise_for_status(resp).exc # "" THEN raise_for_status(resp)
    ELSE IF Truthy(resp.data) THEN GeocodeCo_normalize(resp.data)
    ELSE Raise("LookupError")

GeocodeCo_parse(resp) ==
    IF resp.status_code = HTTP_TOO_MANY_REQUESTS THEN Ok(None)
    ELSE IF raise_for_status(resp).exc # "" THEN raise_for_status(resp)
    ELSE IF Truthy(resp.data) THEN GeocodeCo_normalize(resp.data)
    ELSE Ok(None)

\* GeocodeCo_get_coordinates with the pause placed after the rate-limit
\* check, so that a 429 returns at once.
GeocodeCo_get_coordinates_pause_after_check(path, address, resp) ==
    LET body == IF resp.error # "" THEN Raise(resp.error) ELSE GeocodeCo_parse(resp)
        out == TryExcept(body, RequestException \cup {"KeyError", "IndexError"})
    IN OneRequestCall(path, "GeocodeCoAdapter", "get_coordinates",
                      GeoArgs(address), resp,
                      resp.error = "" /\ resp.status_code # HTTP_TOO_MANY_REQUESTS,
                      out)

GeocodeCo_get_coordinates(path, address, resp) ==
    LET body == IF resp.error # "" THEN Raise(resp.error) ELSE GeocodeCo_parse(resp)
        out == TryExcept(body, RequestException \cup {"KeyError", "IndexError"})
    IN OneRequestCall(path, "GeocodeCoAdapter", "get_coordinates",
                      GeoArgs(address), resp, resp.error = "", out)

\* GeocodeCo_get_route reporting the missing capability as the ordinary
\* "no result".
GeocodeCo_get_route_none(path, args) ==
    [out |-> Ok(None),
     trace |-> <<Enter(path, "GeocodeCoAdapter", "get_route", args),
                 Return(path, "GeocodeCoAdapter", "get_route", args, Ok(None))>>]

GeocodeCo_get_route(path, args) ==
    LET out == Raise("NotImplementedError")
    IN [out |-> out,
        trace |-> <<Enter(path, "GeocodeCoAdapter", "get_route", args),
                    Return(path, "GeocodeCoAdapter", "get_route", args, out)>>]

(***************************************************************************)
(* TomTomAdapter                                                           *)
(***************************************************************************)
TomTom_normalize(data) ==
    LET position == Key(First(Key(Ok(data), "results")), "position")
        kw == Args2(Key(position, "lat"), Key(position, "lon"))
    IN IF kw.exc # "" THEN kw ELSE Coordinates([lat |-> kw.v.a, lon |-> kw.v.b])

TomTom_parse(resp) ==
    IF raise_for_status(resp).exc # "" THEN raise_for_status(resp)
    ELSE IF ~Truthy(resp.data) THEN Ok(None)
    ELSE LET results == DictGet(resp.data, "results")
         IN IF results.exc # "" THEN results
            ELSE IF Truthy(results.v) THEN TomTom_normalize(resp.data)
            ELSE Ok(None)

TomTom_get_coordinates(path, address, resp) ==
    LET body == IF resp.error # "" THEN Raise(resp.error) ELSE TomTom_parse(resp)
        out == TryExcept(body, RequestException \cup {"KeyError", "IndexError"})
    IN OneRequestCall(path, "TomTomAdapter", "get_coordinates",
                      GeoArgs(address), resp, FALSE, out)

TomTom_parse_route(resp) ==
    IF raise_for_status(resp).exc # "" THEN raise_for_status(resp)
    ELSE LET travel_seconds ==
                 Key(Key(First(Key(Ok(resp.data), "routes")), "summary"),
                     "travelTimeInSeconds")
         IN IF travel_seconds.exc # "" THEN travel_seconds
            ELSE RouteInfo([travel_time_sec |-> travel_seconds.v,
                            traffic_data_included |-> PyBool(TRUE)])

TomTom_get_route(path, args, resp) ==
    LET body == IF resp.error # "" THEN Raise(resp.error) ELSE TomTom_parse_route(resp)
        out == TryExcept(body, RequestException \cup {"KeyError", "IndexError"})
    IN OneRequestCall(path, "TomTomAdapter", "get_route", args, resp, FALSE, out)

(***************************************************************************)
(* GoogleMapsAdapter                                                       *)
(***************************************************************************)
\* data.get('status') == 'OK' and data.get(<key>)
Google_ok_and(data, key) ==
    LET status == DictGet(data, "status")
    IN IF status.exc # "" THEN status
       ELSE IF ~IsStr(status.v, <<"O", "K">>) THEN Ok(PyBool(FALSE))
       ELSE DictGet(data, key)

Google_normalize(data) ==
    LET location == Key(Key(First(Key(Ok(data), "results")), "geometry"), "location")
        kw == Args2(Key(location, "lat"), Key(location, "lng"))
    IN IF kw.exc # "" THEN kw ELSE Coordinates([lat |-> kw.v.a, lon |-> kw.v.b])

Google_parse(resp) ==
    IF raise_for_status(resp).exc # "" THEN raise_for_status(resp)
    ELSE LET cond == Google_ok_and(resp.data, "results")
         IN IF cond.exc # "" THEN cond
            ELSE IF Truthy(cond.v) THEN Google_normalize(resp.data)
            ELSE Ok(None)

Google_get_coordinates(path, address, resp) ==
    LET body == IF resp.error # "" THEN Raise(resp.error) ELSE Google_parse(resp)
        out == TryExcept(body, RequestException \cup {"KeyError", "IndexError"})
    IN OneRequestCall(path, "GoogleMapsAdapter", "get_coordinates",
                      GeoArgs(address), resp, FALSE, out)

Google_leg_route(leg) ==
    LET has == Contains("duration_in_traffic", leg)
        field == IF has.v.b THEN "duration_in_traffic" ELSE "duration"
        travel_seconds == Key(Key(Ok(leg), field), "value")
    IN IF has.exc # "" THEN has
       ELSE IF travel_seconds.exc # "" THEN travel_seconds
       ELSE RouteInfo([travel_time_sec |-> travel_seconds.v,
                       traffic_data_included |-> PyBool(has.v.b)])

Google_parse_route(resp) ==
    IF raise_for_status(resp).exc # "" THEN raise_for_status(resp)
    ELSE LET cond == Google_ok_and(resp.data, "routes")
             leg == First(Key(First(Key(Ok(resp.data), "routes")), "legs"))
         IN IF cond.exc # "" THEN cond
            ELSE IF ~Truthy(cond.v) THEN Ok(None)
            ELSE IF leg.exc # "" THEN leg
            ELSE Google_leg_route(leg.v)

Google_get_route(path, args, resp) ==
    LET body == IF resp.error # "" THEN Raise(resp.error) ELSE Google_parse_route(resp)
        out == TryExcept(body, RequestException \cup {"KeyError", "IndexError"})
    IN OneRequestCall(path, "GoogleMapsAdapter", "get_route", args, resp, FALSE, out)

(***************************************************************************)
(* The adapter objects.  A backend adapter holds only its class (verbose   *)
(* only prints); the composite holds its two adapters.                     *)
(***************************************************************************)
GeocodeCoAdapter == [cls |-> "GeocodeCoAdapter"]
TomTomAdapter == [cls |-> "TomTomAdapter"]
GoogleMapsAdapter == [cls |-> "GoogleMapsAdapter"]
FallbackGeocoderAdapter(primary_geocoder, fallback_adapter) ==
    [cls |-> "FallbackGeocoderAdapter",
     primary_geocoder |-> primary_geocoder,
     fallback_adapter |-> fallback_adapter]

RECURSIVE get_coordinates(_, _, _, _)
RECURSIVE get_route(_, _, _, _)

(***************************************************************************)
(* FallbackGeocoderAdapter.  world[cls] is the response the backend of     *)
(* class cls gives to the request of this call.                            *)
(***************************************************************************)
\* Fallback_get_coordinates with both lookups made before the choice
\* (coords = primary(...); other = fallback(...); return coords or other).
Fallback_get_coordinates_eager(self, path, address, world) ==
    LET args == GeoArgs(address)
        p == get_coordinates(self.primary_geocoder,
                             Append(path, "primary_geocoder"), address, world)
        f == get_coordinates(self.fallback_adapter,
                             Append(path, "fallback_adapter"), address, world)
        out == IF p.out.exc # "" THEN p.out
               ELSE IF f.out.exc # "" THEN f.out
               ELSE IF Truthy(p.out.v) THEN p.out ELSE f.out
    IN [out |-> out,
        trace |-> <<Enter(path, self.cls, "get_coordinates", args)>>
                  \o p.trace
                  \o (IF p.out.exc # "" THEN <<>> ELSE f.trace)
                  \o <<Return(path, self.cls, "get_coordinates", args, out)>>]

\* Fallback_get_route written like the lookup: the primary first, the
\* fallback when it gives nothing.
Fallback_get_route_primary_first(self, path, args, world) ==
    LET p == get_route(self.primary_geocoder,
                       Append(path, "primary_geocoder"), args, world)
        f == get_route(self.fallback_adapter,
                       Append(path, "fallback_adapter"), args, world)
        Done(out, inner) ==
            [out |-> out,
             trace |-> <<Enter(path, self.cls, "get_route", args)>> \o inner
                       \o <<Return(path, self.cls, "get_route", args, out)>>]
    IN IF p.out.exc # "" THEN Done(p.out, p.trace)
       ELSE IF Truthy(p.out.v) THEN Done(p.out, p.trace)
       ELSE Done(f.out, p.trace \o f.trace)

Fallback_get_coordinates(self, path, address, world) ==
    LET enter == Enter(path, self.cls, "get_coordinates", GeoArgs(address))
        p == get_coordinates(self.primary_geocoder,
                             Append(path, "primary_geocoder"), address, world)
        f == get_coordinates(self.fallback_adapter,
                             Append(path, "fallback_adapter"), address, world)
        Done(out, inner) ==
            [out |-> out,
             trace |-> <<enter>> \o inner
                       \o <<Return(path, self.cls, "get_coordinates",
                                   GeoArgs(address), out)>>]
    IN IF p.out.exc # "" THEN Done(p.out, p.trace)
       ELSE IF Truthy(p.out.v) THEN Done(p.out, p.trace)
       ELSE Done(f.out, p.trace \o f.trace)

Fallback_get_route(self, path, args, world) ==
    LET f == get_route(self.fallback_adapter,
                       Append(path, "fallback_adapter"), args, world)
    IN [out |-> f.out,
        trace |-> <<Enter(path, self.cls, "get_route", args)>> \o f.trace
                  \o <<Return(path, self.cls, "get_route", args, f.out)>>]

\* adapter.get_coordinates(address): the method of the adapter's class.
get_coordinates(self, path, address, world) ==
    CASE self.cls = "GeocodeCoAdapter" ->
             GeocodeCo_get_coordinates(path, address, world[self.cls])
      [] self.cls = "TomTomAdapter" ->
             TomTom_get_coordinates(path, address, world[self.cls])
      [] self.cls = "GoogleMapsAdapter" ->
             Google_get_coordinates(path, address, world[self.cls])
      [] self.cls = "FallbackGeocoderAdapter" ->
             Fallback_get_coordinates(self, path, address, world)

\* adapter.get_route(start_coords, end_coords, departure_time).
get_route(self, path, args, world) ==
    CASE self.cls = "GeocodeCoAdapter" -> GeocodeCo_get_route(path, args)
      [] self.cls = "TomTomAdapter" ->
             TomTom_get_route(path, args, world[self.cls])
      [] self.cls = "GoogleMapsAdapter" ->
             Google_get_route(path, args, world[self.cls])
      [] self.cls = "FallbackGeocoderAdapter" ->
             Fallback_get_route(self, path, args, world)

\* The backend classes an adapter can reach.
RECURSIVE Backends(_)
Backends(a) ==
    IF a.cls = "FallbackGeocoderAdapter"
    THEN Backends(a.primary_geocoder) \cup Backends(a.fallback_adapter)
    ELSE {a.cls}

(***************************************************************************)
(* The responses the backends give in the model: for each backend and      *)
(* endpoint a transport failure, an error status, the documented answers   *)
(* (a match, no match) and answers that depart from the documented shape.  *)
(***************************************************************************)
LatA == <<"3", "3", ".", "9">>
LonA == <<"-", "1", "1", "8", ".", "3">>
LatB == PyFloat(337)
LonB == PyFloat(0 - 1178)

ErrorStatus == Response(500, EmptyDict)

GeocodeCoList(lat, lon) == PyList(<<PyDict([lat |-> lat, lon |-> lon])>>)

GeocodeCoResponses ==
    { TransportError("ConnectionError"),
      ErrorStatus,
      Response(HTTP_TOO_MANY_REQUESTS, EmptyDict),
      Response(200, GeocodeCoList(PyStr(LatA), PyStr(LonA))),
      Response(200, GeocodeCoList(LatB, LonB)),
      Response(200, PyList(<<>>)),
      Response(200, GeocodeCoList(PyStr(<<"a", "b", "c">>), PyStr(LonA))),
      Response(200, PyList(<<PyDict([lon |-> PyStr(LonA)])>>)),
      Response(200, PyDict([error |-> PyStr(<<"x">>)])) }

TomTomResults(results) == PyDict([results |-> PyList(results)])
TomTomPosition(lat, lon) ==
    PyDict([position |-> PyDict([lat |-> lat, lon |-> lon])])

TomTomGeocodeResponses ==
    { TransportError("Timeout"),
      ErrorStatus,
      Response(200, TomTomResults(<<TomTomPosition(LatB, LonB)>>)),
      Response(200, TomTomResults(<<TomTomPosition(PyStr(LatA), PyStr(LonA))>>)),
      Response(200, TomTomResults(<<>>)),
      Response(200, EmptyDict),
      Response(200, TomTomResults(<<EmptyDict>>)),
      Response(200, TomTomResults(<<PyStr(<<"x">>)>>)) }

GoogleStatus(status) == PyStr(status)
GoogleLocation(lat, lng) ==
    PyDict([geometry |-> PyDict([location |-> PyDict([lat |-> lat, lng |-> lng])])])
GoogleGeocode(status, results) ==
    PyDict([status |-> GoogleStatus(status), results |-> PyList(results)])

GoogleGeocodeResponses ==
    { TransportError("ConnectionError"),
      ErrorStatus,
      Response(200, GoogleGeocode(<<"O", "K">>, <<GoogleLocation(LatB, LonB)>>)),
      Response(200, GoogleGeocode(<<"O", "K">>,
                                  <<GoogleLocation(PyStr(LatA), PyStr(LonA))>>)),
      Response(200, GoogleGeocode(<<"Z", "E", "R", "O">>, <<>>)),
      Response(200, PyDict([status |-> GoogleStatus(<<"D", "E", "N", "Y">>)])),
      Response(200, GoogleGeocode(<<"O", "K">>, <<>>)),
      Response(200, GoogleGeocode(<<"O", "K">>, <<EmptyDict>>)) }

TomTomRoute(seconds) ==
    PyDict([routes |-> PyList(<<PyDict([summary |->
                PyDict([travelTimeInSeconds |-> seconds])])>>)])

TomTomRouteResponses ==
    { TransportError("Timeout"),
      ErrorStatus,
      Response(200, TomTomRoute(PyInt(1800))),
      Response(200, TomTomRoute(PyInt(2100))),
      Response(200, PyDict([routes |-> PyList(<<>>)])),
      Response(200, EmptyDict),
      Response(200, PyDict([routes |-> None])) }

GoogleRoute(status, legs) ==
    PyDict([status |-> GoogleStatus(status),
            routes |-> PyList(<<PyDict([legs |-> PyList(legs)])>>)])
GoogleValue(seconds) == PyDict([value |-> seconds])

GoogleRouteResponses ==
    { TransportError("ConnectionError"),
      ErrorStatus,
      Response(200, GoogleRoute(<<"O", "K">>,
          <<PyDict([duration |-> GoogleValue(PyInt(1800)),
                    duration_in_traffic |-> GoogleValue(PyInt(2100))])>>)),
      Response(200, GoogleRoute(<<"O", "K">>,
          <<PyDict([duration |-> GoogleValue(PyInt(1800))])>>)),
      Response(200, PyDict([status |-> GoogleStatus(<<"Z", "E", "R", "O">>),
                            routes |-> PyList(<<>>)])),
      Response(200, GoogleRoute(<<"O", "K">>, <<>>)),
      Response(200, GoogleRoute(<<"O", "K">>, <<EmptyDict>>)) }

\* What backend cls may answer to a request of op; a backend the adapter
\* never reaches gives nothing.
Responses(adapter, cls, op) ==
    IF cls \notin Backends(adapter) THEN {NoResponse}
    ELSE CASE cls = "GeocodeCoAdapter" ->
                  IF op = "get_coordinates" THEN GeocodeCoResponses ELSE {NoResponse}
           [] cls = "TomTomAdapter" ->
                  IF op = "get_coordinates" THEN TomTomGeocodeResponses
                  ELSE TomTomRouteResponses
           [] cls = "GoogleMapsAdapter" ->
                  IF op = "get_coordinates" THEN GoogleGeocodeResponses
                  ELSE GoogleRouteResponses

World(g, t, q) ==
    [GeocodeCoAdapter |-> g, TomTomAdapter |-> t, GoogleMapsAdapter |-> q]

\* The adapters a run is given: each backend alone (the program's menu
\* offers TomTomAdapter and GoogleMapsAdapter) and the composite over a
\* geocoding-only primary, over a geocoding-only fallback and over two
\* full backends.
Adapters ==
    { GeocodeCoAdapter, TomTomAdapter, GoogleMapsAdapter,
      FallbackGeocoderAdapter(GeocodeCoAdapter, TomTomAdapter),
      FallbackGeocoderAdapter(GeocodeCoAdapter, GoogleMapsAdapter),
      FallbackGeocoderAdapter(TomTomAdapter, GeocodeCoAdapter),
      FallbackGeocoderAdapter(GoogleMapsAdapter, TomTomAdapter) }

LunchChoices == {0, 30}

(***************************************************************************)
(* analyze_commute_scenarios.  A datetime of the analysis date is kept as  *)
(* the seconds since its local midnight.                                   *)
(***************************************************************************)
start_hour == 6
end_hour == 10
increment_minutes == 30
WORK_HOURS == 8

start_time == start_hour * 3600
end_time == end_hour * 3600

HOME == "home_address"
WORK == "work_address"

\* timedelta(seconds=x), in seconds.
timedelta_seconds(x) ==
    CASE x.t = "int" -> Ok(x.n)
      [] x.t = "float" -> Ok(x.n \div 10)
      [] x.t = "bool" -> Ok(IF x.b THEN 1 ELSE 0)
      [] OTHER -> Raise("TypeError")

\* a + b
PyAdd(a, b) ==
    CASE a.t = "int" /\ b.t = "int" -> Ok(PyInt(a.n + b.n))
      [] a.t = "int" /\ b.t = "float" -> Ok(PyFloat(a.n * 10 + b.n))
      [] a.t = "float" /\ b.t = "int" -> Ok(PyFloat(a.n + b.n * 10))
      [] a.t = "float" /\ b.t = "float" -> Ok(PyFloat(a.n + b.n))
      [] OTHER -> Raise("TypeError")

Call(op, args, r) == [op |-> op, args |-> args, out |-> r.out, trace |-> r.trace]
NoCall == [op |-> "", args |-> GeoArgs(""), out |-> Ok(None), trace |-> <<>>]

CallEntry(op, args) ==
    [op |-> op, address |-> args.address, departure_time |-> args.departure_time]

\* The dict appended for a candidate (lines 101-110); the values are
\* evaluated in the order written.
scenario_record(leave_home, morning, evening, arrive_work, leave_work) ==
    LET morning_travel_sec == Attr(morning, "travel_time_sec")
        morning_traffic_ok == Attr(morning, "traffic_data_included")
        evening_travel_sec == Attr(evening, "travel_time_sec")
        evening_traffic_ok == Attr(evening, "traffic_data_included")
        total == PyAdd(morning_travel_sec.v, evening_travel_sec.v)
    IN IF morning_traffic_ok.exc # "" THEN morning_traffic_ok
       ELSE IF evening_traffic_ok.exc # "" THEN evening_traffic_ok
       ELSE IF total.exc # "" THEN total
       ELSE Ok([leave_home |-> leave_home,
                morning_travel_sec |-> morning_travel_sec.v,
                morning_traffic_ok |-> morning_traffic_ok.v,
                arrive_work |-> arrive_work,
                leave_work |-> leave_work,
                evening_travel_sec |-> evening_travel_sec.v,
                evening_traffic_ok |-> evening_traffic_ok.v,
                total_commute_sec |-> total.v])

\* One pass of the while loop (lines 70-112) for the candidate now: the
\* adapter calls made, and how the pass ends: "raise" (exc), "skip", or
\* "append" (record).
Pass(how, exc, record, made) ==
    [how |-> how, exc |-> exc, record |-> record, made |-> made]

\* Lines 76-77: the morning leg.
morning_leg(adapter, home, work, now, w) ==
    Call("get_route", RouteArgs(home, work, now),
         get_route(adapter, <<>>, RouteArgs(home, work, now), w))

\* Lines 84-88, after a morning leg that gave a route: the arrival at work
\* and the departure from it.
work_times(m, now, lunch) ==
    LET mts == Attr(m.out.v, "travel_time_sec")
        msec == timedelta_seconds(mts.v)
    IN IF mts.exc # "" THEN mts
       ELSE IF msec.exc # "" THEN msec
       ELSE Ok([work_arrival_time |-> now + msec.v,
                work_departure_time |->
                    now + msec.v + WORK_HOURS * 3600 + lunch * 60])

\* Lines 90-110: the evening leg and the record.
evening_leg(adapter, home, work, now, m, times, w) ==
    LET eargs == RouteArgs(work, home, times.work_departure_time)
        e == Call("get_route", eargs, get_route(adapter, <<>>, eargs, w))
        ets == Attr(e.out.v, "travel_time_sec")
        rec == scenario_record(now, m.out.v, e.out.v, times.work_arrival_time,
                               times.work_departure_time)
    IN IF e.out.exc # "" THEN Pass("raise", e.out.exc, None, <<m, e>>)
       ELSE IF ~Truthy(e.out.v) THEN Pass("skip", "", None, <<m, e>>)
       ELSE IF ets.exc # "" THEN Pass("raise", ets.exc, None, <<m, e>>)
       ELSE IF rec.exc # "" THEN Pass("raise", rec.exc, None, <<m, e>>)
       ELSE Pass("append", "", rec.v, <<m, e>>)

\* The pass, given the morning leg's call m: it ends there, or goes on to
\* the evening leg (which takes the response w2).
NeedsEvening(m, now, lunch) ==
    /\ m.out.exc = ""
    /\ Truthy(m.out.v)
    /\ work_times(m, now, lunch).exc = ""

morning_only(m, now, lunch) ==
    IF m.out.exc # "" THEN Pass("raise", m.out.exc, None, <<m>>)
    ELSE IF ~Truthy(m.out.v) THEN Pass("skip", "", None, <<m>>)
    ELSE Pass("raise", work_times(m, now, lunch).exc, None, <<m>>)

Entries(made) == [i \in 1..Len(made) |-> CallEntry(made[i].op, made[i].args)]

\* What the adapter did in the calls of a pass, one after the other.
PassTrace(made) ==
    IF Len(made) = 1 THEN made[1].trace ELSE made[1].trace \o made[2].trace

(***************************************************************************)
(* Time.  The scan and the adapters run in one thread: a call starts when  *)
(* the one before it has returned.                                         *)
(***************************************************************************)
MaxLatency == 4
Latencies == {0, MaxLatency}

SCAN_SLEEP_TENTHS == 5

\* The time event e takes: a pause its length (time.sleep), a request the
\* round trip (requests.get returns, or raises, when it is over).
Took(e, rtt) == IF e.ev = "request" THEN rtt ELSE e.dur

\* The time the events of trace take, one after the other.
RECURSIVE Elapsed(_, _)
Elapsed(trace, rtt) ==
    IF trace = <<>> THEN 0
    ELSE Took(Head(trace), rtt) + Elapsed(Tail(trace), rtt)

\* When event i of a call that started at t0 begins.
At(trace, i, t0, rtt) == t0 + Elapsed(SubSeq(trace, 1, i - 1), rtt)

\* The return of the method that sent the request at event i.
ReturnOf(trace, i) ==
    CHOOSE j \in i..Len(trace) :
        /\ trace[j].ev = "return" /\ trace[j].path = trace[i].path
        /\ \A k \in i..(j - 1) :
               ~(trace[k].ev = "return" /\ trace[k].path = trace[i].path)

\* The requests to geocode.maps.co among the events i.. of a call that
\* started at t0: when each was sent, whether a response came back, when the
\* method returned and whether it returned a Coordinates.
RECURSIVE GeocodeCoRequests(_, _, _, _)
GeocodeCoRequests(trace, i, t0, rtt) ==
    IF i > Len(trace) THEN <<>>
    ELSE (IF trace[i].ev = "request" /\ trace[i].cls = "GeocodeCoAdapter"
          THEN <<[sent |-> At(trace, i, t0, rtt),
                  received |-> trace[i].resp.error = "",
                  returned |-> At(trace, ReturnOf(trace, i), t0, rtt),
                  success |-> /\ trace[ReturnOf(trace, i)].out.exc = ""
                              /\ trace[ReturnOf(trace, i)].out.v.t = "Coordinates"]>>
          ELSE <<>>)
         \o GeocodeCoRequests(trace, i + 1, t0, rtt)

(***************************************************************************)
(* display_results: the flags and figures it passes on to be printed.      *)
(***************************************************************************)
\* a and b
PyAnd(a, b) == IF Truthy(a) THEN b ELSE a

\* The tenths in a number.
Tenths(x) == IF x.t = "float" THEN x.n ELSE x.n * 10

\* format_duration: round(seconds / 60) (a tie goes to the even minute) and
\* the asterisk of a figure without traffic data.
format_duration(seconds, traffic_ok) ==
    LET q == Tenths(seconds) \div 600
        r == Tenths(seconds) % 600
    IN [minutes |-> IF r < 300 \/ (r = 300 /\ q % 2 = 0) THEN q ELSE q + 1,
        asterisk |-> ~Truthy(traffic_ok)]

\* Line 137, and line 150 for the best scenario.
total_commute_traffic_ok(s) == PyAnd(s.morning_traffic_ok, s.evening_traffic_ok)

\* Line 146: min(scenarios, key=...), the first of the least totals.
best_scenario(scs) ==
    scs[CHOOSE k \in DOMAIN scs :
            /\ \A j \in DOMAIN scs :
                   Tenths(scs[k].total_commute_sec) <= Tenths(scs[j].total_commute_sec)
            /\ \A j \in 1..(k - 1) :
                   Tenths(scs[j].total_commute_sec) > Tenths(scs[k].total_commute_sec)]

\* Lines 136-143: a row of the table.
table_row(s) ==
    [leave_home |-> s.leave_home,
     morning |-> format_duration(s.morning_travel_sec, s.morning_traffic_ok),
     evening |-> format_duration(s.evening_travel_sec, s.evening_traffic_ok),
     total_traffic_ok |-> total_commute_traffic_ok(s),
     total |-> format_duration(s.total_commute_sec, total_commute_traffic_ok(s))]

NotShown == [shown |-> FALSE, footnote |-> FALSE, rows |-> <<>>, best |-> <<>>]

display_results(scs) ==
    IF scs = <<>>
    THEN [shown |-> TRUE, footnote |-> FALSE, rows |-> <<>>, best |-> <<>>]
    ELSE [shown |-> TRUE,
          footnote |-> \E k \in DOMAIN scs :
                           \/ ~Truthy(scs[k].morning_traffic_ok)
                           \/ ~Truthy(scs[k].evening_traffic_ok),
          rows |-> [k \in DOMAIN scs |-> table_row(scs[k])],
          best |-> <<table_row(best_scenario(scs))>>]

Init ==
    /\ api_adapter \in Adapters
    /\ lunch_minutes \in LunchChoices
    /\ pc = "geocode_home"
    /\ home_coords = None
    /\ work_coords = None
    /\ current_time = start_time
    /\ scenarios = <<>>
    /\ result = Ok(None)
    /\ calls = <<>>
    /\ lastCall = NoCall
    /\ latency \in Latencies
    /\ clock = 0
    /\ geocodeco_calls = <<>>
    /\ report = NotShown

\* Line 48: home_coords = api_adapter.get_coordinates(home_address)
GeocodeHome ==
    /\ pc = "geocode_home"
    /\ \E g \in Responses(api_adapter, "GeocodeCoAdapter", "get_coordinates"),
          t \in Responses(api_adapter, "TomTomAdapter", "get_coordinates"),
          q \in Responses(api_adapter, "GoogleMapsAdapter", "get_coordinates") :
         LET c == Call("get_coordinates", GeoArgs(HOME),
                       get_coordinates(api_adapter, <<>>, HOME, World(g, t, q)))
         IN /\ lastCall' = c
            /\ calls' = Append(calls, CallEntry(c.op, c.args))
            /\ clock' = clock + Elapsed(c.trace, latency)
            /\ geocodeco_calls' =
                   geocodeco_calls \o GeocodeCoRequests(c.trace, 1, clock, latency)
            /\ IF c.out.exc # ""
               THEN /\ pc' = "raised"
                    /\ result' = c.out
                    /\ home_coords' = home_coords
               ELSE /\ pc' = "geocode_work"
                    /\ result' = result
                    /\ home_coords' = c.out.v
    /\ UNCHANGED <<api_adapter, lunch_minutes, work_coords, current_time, scenarios,
                   latency, report>>

\* Lines 49-63: the second lookup, the check of both results, and the
\* start of the grid.
GeocodeWork ==
    /\ pc = "geocode_work"
    /\ \E g \in Responses(api_adapter, "GeocodeCoAdapter", "get_coordinates"),
          t \in Responses(api_adapter, "TomTomAdapter", "get_coordinates"),
          q \in Responses(api_adapter, "GoogleMapsAdapter", "get_coordinates") :
         LET c == Call("get_coordinates", GeoArgs(WORK),
                       get_coordinates(api_adapter, <<>>, WORK, World(g, t, q)))
         IN /\ lastCall' = c
            /\ calls' = Append(calls, CallEntry(c.op, c.args))
            /\ clock' = clock + Elapsed(c.trace, latency)
            /\ geocodeco_calls' =
                   geocodeco_calls \o GeocodeCoRequests(c.trace, 1, clock, latency)
            /\ IF c.out.exc # ""
               THEN /\ pc' = "raised"
                    /\ result' = c.out
                    /\ work_coords' = work_coords
               ELSE /\ work_coords' = c.out.v
                    /\ IF ~Truthy(home_coords) \/ ~Truthy(c.out.v)
                       THEN pc' = "returned" /\ result' = Ok(PyList(<<>>))
                       ELSE pc' = "loop" /\ result' = result
    /\ UNCHANGED <<api_adapter, lunch_minutes, home_coords, current_time, scenarios,
                   latency, report>>

\* The end of a pass p, which began with the pause of line 74: the
\* exception leaves the scan, or the candidate is recorded or skipped, the
\* time advances (lines 81, 96, 112) and the loop test (line 70) goes on or
\* returns the scenarios (line 114).
EndPass(p) ==
    LET next_time == current_time + increment_minutes * 60
        appended == IF p.how = "append" THEN Append(scenarios, p.record)
                    ELSE scenarios
        began == clock + SCAN_SLEEP_TENTHS
    IN /\ lastCall' = p.made[Len(p.made)]
       /\ calls' = calls \o Entries(p.made)
       /\ clock' = began + Elapsed(PassTrace(p.made), latency)
       /\ geocodeco_calls' =
              geocodeco_calls \o GeocodeCoRequests(PassTrace(p.made), 1, began, latency)
       /\ IF p.how = "raise"
          THEN /\ pc' = "raised"
               /\ result' = Raise(p.exc)
               /\ UNCHANGED <<current_time, scenarios>>
          ELSE /\ scenarios' = appended
               /\ current_time' = next_time
               /\ IF next_time <= end_time
                  THEN pc' = "loop" /\ result' = result
                  ELSE pc' = "returned" /\ result' = Ok(PyList(appended))

\* Lines 70-114: one candidate of the grid.  The evening leg is taken only
\* after a morning leg that returned a route.
Candidate ==
    /\ pc = "loop"
    /\ \E t1 \in Responses(api_adapter, "TomTomAdapter", "get_route"),
          q1 \in Responses(api_adapter, "GoogleMapsAdapter", "get_route") :
         LET m == morning_leg(api_adapter, home_coords, work_coords,
                              current_time, World(NoResponse, t1, q1))
         IN IF NeedsEvening(m, current_time, lunch_minutes)
            THEN \E t2 \in Responses(api_adapter, "TomTomAdapter", "get_route"),
                    q2 \in Responses(api_adapter, "GoogleMapsAdapter", "get_route") :
                   EndPass(evening_leg(api_adapter, home_coords, work_coords,
                               current_time, m,
                               work_times(m, current_time, lunch_minutes).v,
                               World(NoResponse, t2, q2)))
            ELSE EndPass(morning_only(m, current_time, lunch_minutes))
    /\ UNCHANGED <<api_adapter, lunch_minutes, home_coords, work_coords,
                   latency, report>>

\* Line 227 of the caller: display_results(all_scenarios), once the scan
\* has returned.
DisplayResults ==
    /\ pc = "returned"
    /\ ~report.shown
    /\ report' = display_results(result.v.l)
    /\ UNCHANGED <<api_adapter, lunch_minutes, pc, home_coords, work_coords,
                   current_time, scenarios, result, calls, lastCall,
                   latency, clock, geocodeco_calls>>

Next == GeocodeHome \/ GeocodeWork \/ Candidate \/ DisplayResults

Spec == Init /\ [][Next]_vars

(***************************************************************************)
(* What the properties read: the events of the last adapter call.          *)
(***************************************************************************)
Trace == lastCall.trace
Events == DOMAIN Trace

PRIMARY == <<"primary_geocoder">>
FALLBACK == <<"fallback_adapter">>

IsComposite == api_adapter.cls = "FallbackGeocoderAdapter"

\* Event i is the return of method op of the adapter at path.
ReturnAt(i, path, op) ==
    Trace[i].ev = "return" /\ Trace[i].path = path /\ Trace[i].op = op
EnterAt(i, path, op) ==
    Trace[i].ev = "enter" /\ Trace[i].path = path /\ Trace[i].op = op

\* Event i is the return of method op of a backend adapter.
BackendReturn(i, op) ==
    /\ Trace[i].ev = "return"
    /\ Trace[i].op = op
    /\ Trace[i].cls # "FallbackGeocoderAdapter"

\* The requests sent by the method that returns at event i.
RequestsOf(i) ==
    {j \in Events : Trace[j].ev = "request" /\ Trace[j].path = Trace[i].path}

IsCoordinates(out) == out.exc = "" /\ out.v.t = "Coordinates"
IsRouteInfo(out) == out.exc = "" /\ out.v.t = "RouteInfo"
IsNoResult(out) == out.exc = "" /\ out.v.t = "NoneType"

Under(path, prefix) == Len(path) >= Len(prefix) /\ SubSeq(path, 1, Len(prefix)) = prefix

(***************************************************************************)
(* C1.  When the primary's get_coordinates returns a Coordinates, the      *)
(* composite's get_coordinates returns that value and the fallback adapter *)
(* is not invoked in the call.                                             *)
(***************************************************************************)
C1_PrimarySuccessIsReturned ==
    (IsComposite /\ lastCall.op = "get_coordinates") =>
        \A i \in Events :
            (ReturnAt(i, PRIMARY, "get_coordinates") /\ IsCoordinates(Trace[i].out))
            => /\ IsCoordinates(lastCall.out)
               /\ lastCall.out.v = Trace[i].out.v
               /\ \A j \in Events : ~Under(Trace[j].path, FALLBACK)

C1_Witness ==
    /\ IsComposite
    /\ lastCall.op = "get_coordinates"
    /\ \E i \in Events :
          ReturnAt(i, PRIMARY, "get_coordinates") /\ IsCoordinates(Trace[i].out)

(***************************************************************************)
(* C2.  When the primary's get_coordinates fails (any outcome other than a *)
(* Coordinates), the composite invokes the fallback's get_coordinates      *)
(* exactly once, after the primary, returns the fallback's outcome, and    *)
(* does not call the primary again.                                        *)
(***************************************************************************)
C2_FallbackOnPrimaryFailure ==
    (IsComposite /\ lastCall.op = "get_coordinates") =>
        \A i \in Events :
            (ReturnAt(i, PRIMARY, "get_coordinates") /\ ~IsCoordinates(Trace[i].out))
            => /\ Cardinality({j \in Events : EnterAt(j, FALLBACK, "get_coordinates")}) = 1
               /\ \A j \in Events : EnterAt(j, FALLBACK, "get_coordinates") => j > i
               /\ \E j \in Events : /\ ReturnAt(j, FALLBACK, "get_coordinates")
                                    /\ Trace[j].out.exc = lastCall.out.exc
                                    /\ Trace[j].out.v = lastCall.out.v
               /\ Cardinality({j \in Events : EnterAt(j, PRIMARY, "get_coordinates")}) = 1

(***************************************************************************)
(* C3.  The composite's get_route invokes no operation of the primary,     *)
(* invokes the fallback's get_route exactly once with the arguments it     *)
(* was given, and returns that call's outcome, whatever calls came before. *)
(***************************************************************************)
C3_RouteDelegatedToFallback ==
    (IsComposite /\ lastCall.op = "get_route") =>
        /\ \A j \in Events : ~Under(Trace[j].path, PRIMARY)
        /\ Cardinality({j \in Events : Trace[j].ev = "enter" /\ Trace[j].path = FALLBACK}) = 1
        /\ \E j \in Events : /\ EnterAt(j, FALLBACK, "get_route")
                             /\ Trace[j].args = lastCall.args
        /\ \E j \in Events : /\ ReturnAt(j, FALLBACK, "get_route")
                             /\ Trace[j].out.exc = lastCall.out.exc
                             /\ Trace[j].out.v = lastCall.out.v

\* A route call on a composite that follows the two lookups and an earlier
\* route call.
C3_Witness ==
    /\ IsComposite
    /\ lastCall.op = "get_route"
    /\ Len(calls) >= 4
    /\ \E j \in Events : ReturnAt(j, FALLBACK, "get_route")

(***************************************************************************)
(* C4.  GeocodeCoAdapter.get_route always ends in the capability failure   *)
(* (NotImplementedError: neither a RouteInfo nor "no result") and sends no *)
(* request.                                                                *)
(***************************************************************************)
C4_GeocodeOnlyRouteUnsupported ==
    \A i \in Events :
        (BackendReturn(i, "get_route") /\ Trace[i].cls = "GeocodeCoAdapter")
        => /\ Trace[i].out.exc = "NotImplementedError"
           /\ ~IsRouteInfo(Trace[i].out)
           /\ ~IsNoResult(Trace[i].out)
           /\ RequestsOf(i) = {}

C4_Witness ==
    \E i \in Events :
        BackendReturn(i, "get_route") /\ Trace[i].cls = "GeocodeCoAdapter"

(***************************************************************************)
(* The shapes of the backends' answers, as their interfaces document them. *)
(***************************************************************************)
HasKeys(x, keys) == x.t = "dict" /\ keys \subseteq DOMAIN x.d
IsListOf(x, Item(_)) == x.t = "list" /\ \A i \in DOMAIN x.l : Item(x.l[i])
IsNumeric(x) == x.t \in {"int", "float"} \/ (x.t = "str" /\ IsFloatLiteral(x.s))
IsPoint(x, lat, lon) ==
    HasKeys(x, {lat, lon}) /\ IsNumeric(x.d[lat]) /\ IsNumeric(x.d[lon])
IsSeconds(x) == HasKeys(x, {"value"}) /\ x.d["value"].t = "int"
StatusOK(data) == HasKeys(data, {"status"}) /\ IsStr(data.d["status"], <<"O", "K">>)

GoogleResult(x) ==
    /\ HasKeys(x, {"geometry"})
    /\ HasKeys(x.d["geometry"], {"location"})
    /\ IsPoint(x.d["geometry"].d["location"], "lat", "lng")
GoogleLeg(x) ==
    /\ HasKeys(x, {"duration"})
    /\ IsSeconds(x.d["duration"])
    /\ ("duration_in_traffic" \in DOMAIN x.d => IsSeconds(x.d["duration_in_traffic"]))
TomTomResult(x) ==
    HasKeys(x, {"position"}) /\ IsPoint(x.d["position"], "lat", "lon")
TomTomRouteItem(x) ==
    /\ HasKeys(x, {"summary"})
    /\ HasKeys(x.d["summary"], {"travelTimeInSeconds"})
    /\ x.d["summary"].d["travelTimeInSeconds"].t = "int"

\* The body of a 200 response has the documented shape (with or without a
\* match).
WellFormed(cls, op, data) ==
    CASE cls = "GeocodeCoAdapter" ->
             IsListOf(data, LAMBDA x : IsPoint(x, "lat", "lon"))
      [] cls = "TomTomAdapter" /\ op = "get_coordinates" ->
             /\ data.t = "dict"
             /\ "results" \in DOMAIN data.d => IsListOf(data.d["results"], TomTomResult)
      [] cls = "TomTomAdapter" /\ op = "get_route" ->
             HasKeys(data, {"routes"}) /\ IsListOf(data.d["routes"], TomTomRouteItem)
      [] cls = "GoogleMapsAdapter" /\ op = "get_coordinates" ->
             /\ HasKeys(data, {"status"})
             /\ data.d["status"].t = "str"
             /\ StatusOK(data) =>
                    HasKeys(data, {"results"}) /\ IsListOf(data.d["results"], GoogleResult)
      [] cls = "GoogleMapsAdapter" /\ op = "get_route" ->
             /\ HasKeys(data, {"status"})
             /\ data.d["status"].t = "str"
             /\ StatusOK(data) =>
                    /\ HasKeys(data, {"routes"})
                    /\ IsListOf(data.d["routes"],
                           LAMBDA r : HasKeys(r, {"legs"}) /\ IsListOf(r.d["legs"], GoogleLeg))

\* A transport error: the request failed, or came back with an error status
\* no branch of the adapter handles.
IsTransportError(cls, resp) ==
    \/ resp.error # ""
    \/ /\ resp.status_code >= 400
       /\ ~(cls = "GeocodeCoAdapter" /\ resp.status_code = HTTP_TOO_MANY_REQUESTS)

IsMalformed(cls, op, resp) ==
    resp.error = "" /\ resp.status_code = 200 /\ ~WellFormed(cls, op, resp.data)

\* A 200 geocoding response with zero matches: Geocode.co an empty list,
\* TomTom an empty or absent results list, Google a status other than OK or
\* an empty results list.
ZeroMatches(cls, resp) ==
    /\ resp.error = ""
    /\ resp.status_code = 200
    /\ CASE cls = "GeocodeCoAdapter" -> resp.data.t = "list" /\ resp.data.l = <<>>
         [] cls = "TomTomAdapter" ->
                /\ resp.data.t = "dict"
                /\ \/ "results" \notin DOMAIN resp.data.d
                   \/ /\ resp.data.d["results"].t = "list"
                      /\ resp.data.d["results"].l = <<>>
         [] cls = "GoogleMapsAdapter" ->
                /\ HasKeys(resp.data, {"status"})
                /\ resp.data.d["status"].t = "str"
                /\ \/ ~StatusOK(resp.data)
                   \/ /\ HasKeys(resp.data, {"results"})
                      /\ resp.data.d["results"].t = "list"
                      /\ resp.data.d["results"].l = <<>>

\* A 200 routing response of a full backend that carries a route: the
\* seconds it reports, and whether it reports them in the traffic field.
HasRoute(cls, resp) ==
    /\ resp.error = ""
    /\ resp.status_code = 200
    /\ WellFormed(cls, "get_route", resp.data)
    /\ resp.data.d["routes"].l # <<>>
    /\ cls = "GoogleMapsAdapter" =>
           StatusOK(resp.data) /\ resp.data.d["routes"].l[1].d["legs"].l # <<>>

GoogleFirstLeg(resp) == resp.data.d["routes"].l[1].d["legs"].l[1]

RouteSeconds(cls, resp) ==
    IF cls = "TomTomAdapter"
    THEN resp.data.d["routes"].l[1].d["summary"].d["travelTimeInSeconds"]
    ELSE IF "duration_in_traffic" \in DOMAIN GoogleFirstLeg(resp).d
    THEN GoogleFirstLeg(resp).d["duration_in_traffic"].d["value"]
    ELSE GoogleFirstLeg(resp).d["duration"].d["value"]

(***************************************************************************)
(* C5.  In every backend adapter and both operations, a transport error or *)
(* a malformed response ends the call with "no result"; no error leaves    *)
(* get_coordinates or get_route.                                           *)
(***************************************************************************)
C5_FailuresAbsorbed ==
    \A i \in Events :
        (Trace[i].ev = "return" /\ Trace[i].cls # "FallbackGeocoderAdapter")
        => \A j \in RequestsOf(i) :
               (\/ IsTransportError(Trace[i].cls, Trace[j].resp)
                \/ IsMalformed(Trace[i].cls, Trace[i].op, Trace[j].resp))
               => IsNoResult(Trace[i].out)

(***************************************************************************)
(* C6.  For a routing response that carries a route, get_route of a full   *)
(* backend returns a RouteInfo with the backend's travel time and a        *)
(* boolean traffic_data_included, which for Google is true exactly when    *)
(* the leg has duration_in_traffic; the call does not end in an error.     *)
(***************************************************************************)
C6_RouteInfoCarriesTrafficFlag ==
    \A i \in Events :
        BackendReturn(i, "get_route") =>
            \A j \in RequestsOf(i) :
                HasRoute(Trace[i].cls, Trace[j].resp)
                => /\ IsRouteInfo(Trace[i].out)
                   /\ Attr(Trace[i].out.v, "travel_time_sec")
                          = Ok(RouteSeconds(Trace[i].cls, Trace[j].resp))
                   /\ Attr(Trace[i].out.v, "traffic_data_included").exc = ""
                   /\ Attr(Trace[i].out.v, "traffic_data_included").v.t = "bool"
                   /\ Trace[i].cls = "GoogleMapsAdapter" =>
                          Attr(Trace[i].out.v, "traffic_data_included").v.b
                              = ("duration_in_traffic"
                                    \in DOMAIN GoogleFirstLeg(Trace[j].resp).d)

(***************************************************************************)
(* C7.  Every Coordinates a backend adapter returns has a float lat and a  *)
(* float lon, whether the backend sent numbers or numeric strings.         *)
(***************************************************************************)
C7_CoordinatesAreFloats ==
    \A i \in Events :
        (BackendReturn(i, "get_coordinates") /\ IsCoordinates(Trace[i].out))
        => /\ Trace[i].out.v.f.lat.t = "float"
           /\ Trace[i].out.v.f.lon.t = "float"

(***************************************************************************)
(* C8.  No failure of a route call aborts the scan: a candidate whose      *)
(* route call fails is skipped, every candidate of the grid is attempted   *)
(* in increasing order, and the scan returns the records of the candidates *)
(* whose two route calls succeeded.                                        *)
(***************************************************************************)
Grid == [k \in 1..((end_time - start_time) \div (increment_minutes * 60) + 1)
            |-> start_time + (k - 1) * increment_minutes * 60]

RouteCalls == SelectSeq(calls, LAMBDA c : c.op = "get_route")
MorningCalls == SelectSeq(RouteCalls, LAMBDA c : c.departure_time <= end_time)

C8_RouteFailureSkipsCandidate ==
    /\ lastCall.op = "get_route" => pc # "raised"
    /\ (pc = "returned" /\ Truthy(home_coords) /\ Truthy(work_coords)) =>
           /\ [k \in DOMAIN MorningCalls |-> MorningCalls[k].departure_time] = Grid
           /\ result.v.t = "list"
           /\ result.v.l = scenarios
           /\ \A k \in DOMAIN scenarios :
                  \E g \in DOMAIN Grid : scenarios[k].leave_home = Grid[g]

(***************************************************************************)
(* C9.  The scan calls get_coordinates exactly once for the home address   *)
(* and exactly once for the work address, both before any route call; if   *)
(* either lookup fails it returns the empty list and makes no route call.  *)
(***************************************************************************)
Lookups(address) ==
    SelectSeq(calls, LAMBDA c : c.op = "get_coordinates" /\ c.address = address)

ScanEnded == pc \in {"returned", "raised"}

LookupFailed ==
    \/ Len(Lookups(HOME)) >= 1 /\ ~Truthy(home_coords)
    \/ Len(Lookups(WORK)) >= 1 /\ ~Truthy(work_coords)

C9_GeocodeOncePerEndpoint ==
    /\ Len(Lookups(HOME)) <= 1
    /\ Len(Lookups(WORK)) <= 1
    /\ RouteCalls # <<>> =>
           /\ Len(calls) >= 2
           /\ calls[1].op = "get_coordinates" /\ calls[1].address = HOME
           /\ calls[2].op = "get_coordinates" /\ calls[2].address = WORK
    /\ ScanEnded => Len(Lookups(HOME)) = 1 /\ Len(Lookups(WORK)) = 1
    /\ (ScanEnded /\ LookupFailed) =>
           /\ pc = "returned"
           /\ result.v.t = "list"
           /\ result.v.l = <<>>
           /\ RouteCalls = <<>>

(***************************************************************************)
(* C10.  A geocoding call whose response has zero matches returns "no      *)
(* result" and raises nothing, in every backend adapter.                   *)
(***************************************************************************)
C10_ZeroMatchesIsNoResult ==
    \A i \in Events :
        BackendReturn(i, "get_coordinates") =>
            \A j \in RequestsOf(i) :
                ZeroMatches(Trace[i].cls, Trace[j].resp) => IsNoResult(Trace[i].out)

\* A call in which the rate-limited backend and a full backend both found
\* no match.
C10_Witness ==
    /\ \E i \in Events :
          /\ BackendReturn(i, "get_coordinates")
          /\ Trace[i].cls = "GeocodeCoAdapter"
          /\ \E j \in RequestsOf(i) : ZeroMatches(Trace[i].cls, Trace[j].resp)
    /\ \E i \in Events :
          /\ BackendReturn(i, "get_coordinates")
          /\ Trace[i].cls # "GeocodeCoAdapter"
          /\ \E j \in RequestsOf(i) : ZeroMatches(Trace[i].cls, Trace[j].resp)

(***************************************************************************)
(* C11.  GeocodeCoAdapter paces itself.  Of two consecutive requests to    *)
(* geocode.maps.co, the second is sent at least 1.1 s after the first when *)
(* the first got a response (as every successful call's request does), as  *)
(* the call that gets a response returns no sooner than 1.1 s after its    *)
(* request; and a call answered with 429 returns "no result", after a      *)
(* pause of at least 1.1 s that follows the response, having sent that one *)
(* request only.                                                           *)
(***************************************************************************)
RateLimited(resp) == resp.error = "" /\ resp.status_code = 429

C11_PacingEnforced ==
    /\ \A k \in 1..(Len(geocodeco_calls) - 1) :
           geocodeco_calls[k].received =>
               geocodeco_calls[k + 1].sent - geocodeco_calls[k].sent >= 11
    /\ \A k \in DOMAIN geocodeco_calls :
           /\ geocodeco_calls[k].success => geocodeco_calls[k].received
           /\ geocodeco_calls[k].received =>
                  geocodeco_calls[k].returned - geocodeco_calls[k].sent >= 11
    /\ \A i \in Events :
           (BackendReturn(i, "get_coordinates") /\ Trace[i].cls = "GeocodeCoAdapter")
           => \A j \in RequestsOf(i) :
                  RateLimited(Trace[j].resp)
                  => /\ IsNoResult(Trace[i].out)
                     /\ RequestsOf(i) = {j}
                     /\ \E k \in Events : /\ j < k /\ k < i
                                          /\ Trace[k].ev = "sleep"
                                          /\ Trace[k].path = Trace[i].path
                                          /\ Trace[k].dur >= 11

\* Two successful lookups on geocode.maps.co, one after the other, in a run
\* whose requests take time.
C11_Witness ==
    /\ Len(geocodeco_calls) = 2
    /\ geocodeco_calls[1].success
    /\ geocodeco_calls[2].success
    /\ latency > 0

\* A lookup answered with 429 that follows a successful one.
C11_WitnessRateLimited ==
    /\ Len(geocodeco_calls) = 2
    /\ geocodeco_calls[1].success
    /\ \E i \in Events :
          /\ BackendReturn(i, "get_coordinates")
          /\ Trace[i].cls = "GeocodeCoAdapter"
          /\ \E j \in RequestsOf(i) : RateLimited(Trace[j].resp)

(***************************************************************************)
(* C12.  A candidate whose route calls are answered with routes gets a     *)
(* record: total_commute_sec is the morning leg's travel time plus the     *)
(* evening leg's (1800 s and 2100 s give 3900 s) and the record carries    *)
(* the traffic flag each leg's call returned; the flag display_results     *)
(* gives with a record's total, and with the best option, is the logical   *)
(* AND of the record's two flags.                                          *)
(***************************************************************************)
IsEveningLeg(call) == call.op = "get_route" /\ call.args.departure_time > end_time

\* The last adapter call was a route call answered with a route.
AnsweredWithRoute ==
    /\ lastCall.op = "get_route"
    /\ \E i \in Events :
          /\ BackendReturn(i, "get_route")
          /\ \E j \in RequestsOf(i) : HasRoute(Trace[i].cls, Trace[j].resp)

AnsweredSeconds ==
    LET i == CHOOSE i \in Events :
                 /\ BackendReturn(i, "get_route")
                 /\ \E j \in RequestsOf(i) : HasRoute(Trace[i].cls, Trace[j].resp)
        j == CHOOSE j \in RequestsOf(i) : HasRoute(Trace[i].cls, Trace[j].resp)
    IN RouteSeconds(Trace[i].cls, Trace[j].resp)

BothFlags(s) == PyBool(s.morning_traffic_ok.b /\ s.evening_traffic_ok.b)

AggregateOf(row, s) ==
    /\ row.leave_home = s.leave_home
    /\ row.total_traffic_ok = BothFlags(s)
    /\ row.total.asterisk = ~BothFlags(s).b

====
